---- MODULE Spec2Model ----
(***************************************************************************)
(* Model of MarkovProcessEstimator (src/src/processestimator.py).          *)
(*                                                                         *)
(* The estimator is one mutable accumulator: a set of states, two          *)
(* defaultdict count tables and the list of retained episodes.  Every      *)
(* method is one action.  The defaultdicts are modelled with their key     *)
(* sets: reading d[k] of a defaultdict inserts k with the default value    *)
(* when k is absent, exactly as collections.defaultdict does.              *)
(* Floats are modelled as reduced fractions: for the small integers of the *)
(* model two quotients count/total are equal as IEEE doubles exactly when  *)
(* they are equal as rationals.                                            *)
(***************************************************************************)
EXTENDS Integers, Sequences, FiniteSets, TLC

VARIABLES states, transition_counts, state_counts, episodes, call, before

vars == <<states, transition_counts, state_counts, episodes, call, before>>

(***************************************************************************)
(* Bounds of the model.                                                    *)
(***************************************************************************)
\* longest episode handed to add_episode
MaxLen == 3
\* cap on the total number of transitions ingested (sum of all counts)
MaxTransitions == 3

\* labels that occur in the episodes of the general specification
Labels == {"Home", "Coffee"}

\* labels a query may name: the ingested ones and one that is never ingested
QueryLabels == Labels \cup {"Gym"}

\* labels of the reference usage
ExampleLabels == {"Home", "Coffee", "Chat", "Computer"}

RECURSIVE SeqsUpTo(_, _)
SeqsUpTo(S, n) ==
    IF n = 0 THEN {<<>>}
    ELSE LET shorter == SeqsUpTo(S, n - 1)
         IN  shorter \cup {Append(q, x) : q \in {r \in shorter : Len(r) = n - 1}, x \in S}

Episodes == SeqsUpTo(Labels, MaxLen)

(***************************************************************************)
(* collections.defaultdict                                                 *)
(***************************************************************************)
EmptyDict == [k \in {} |-> 0]

\* the value d[k] evaluates to (default when k is absent)
DictValue(d, k, default) == IF k \in DOMAIN d THEN d[k] ELSE default

\* the dictionary after evaluating d[k]: an absent key is inserted
DictTouch(d, k, default) == IF k \in DOMAIN d THEN d ELSE d @@ (k :> default)

\* the dictionary after d[k] = v
DictPut(d, k, v) == [x \in (DOMAIN d) \cup {k} |-> IF x = k THEN v ELSE d[x]]

(***************************************************************************)
(* float results                                                           *)
(***************************************************************************)
RECURSIVE GCD(_, _)
GCD(a, b) == IF b = 0 THEN a ELSE GCD(b, a % b)

Float(n, d) == [raised |-> FALSE, num |-> n \div GCD(n, d), den |-> d \div GCD(n, d)]

ZeroDivisionError == [raised |-> TRUE, num |-> 0, den |-> 0]

\* count / total
TrueDiv(count, total) == IF total = 0 THEN ZeroDivisionError ELSE Float(count, total)

(***************************************************************************)
(* The estimator object                                                    *)
(***************************************************************************)
Self == [states |-> states,
         transition_counts |-> transition_counts,
         state_counts |-> state_counts,
         episodes |-> episodes]

\* __init__
Fresh == [states |-> {},
          transition_counts |-> EmptyDict,
          state_counts |-> EmptyDict,
          episodes |-> <<>>]

\* variant: the visit is counted for the destination of the pair
add_episode_step_counts_destination(self, state_from, state_to) ==
    LET row  == DictValue(self.transition_counts, state_from, EmptyDict)
        row1 == DictPut(row, state_to, DictValue(row, state_to, 0) + 1)
    IN  [self EXCEPT
            !.states = @ \cup {state_from, state_to},
            !.transition_counts = DictPut(@, state_from, row1),
            !.state_counts = DictPut(@, state_to, DictValue(@, state_to, 0) + 1)]

\* variant: the destination is not added to the state space
add_episode_step_forgets_destination(self, state_from, state_to) ==
    LET row  == DictValue(self.transition_counts, state_from, EmptyDict)
        row1 == DictPut(row, state_to, DictValue(row, state_to, 0) + 1)
    IN  [self EXCEPT
            !.states = @ \cup {state_from},
            !.transition_counts = DictPut(@, state_from, row1),
            !.state_counts = DictPut(@, state_from, DictValue(@, state_from, 0) + 1)]

\* variant: a pair of equal states is not counted
add_episode_step_skips_self_loops(self, state_from, state_to) ==
    LET row  == DictValue(self.transition_counts, state_from, EmptyDict)
        row1 == DictPut(row, state_to, DictValue(row, state_to, 0) + 1)
    IN  IF state_from = state_to
        THEN [self EXCEPT !.states = @ \cup {state_from, state_to}]
        ELSE [self EXCEPT
                !.states = @ \cup {state_from, state_to},
                !.transition_counts = DictPut(@, state_from, row1),
                !.state_counts = DictPut(@, state_from, DictValue(@, state_from, 0) + 1)]

\* variant: a transition is recorded as seen (= 1) instead of counted (+= 1)
add_episode_step_saturates(self, state_from, state_to) ==
    LET row  == DictValue(self.transition_counts, state_from, EmptyDict)
        row1 == DictPut(row, state_to, 1)
    IN  [self EXCEPT
            !.states = @ \cup {state_from, state_to},
            !.transition_counts = DictPut(@, state_from, row1),
            !.state_counts = DictPut(@, state_from, DictValue(@, state_from, 0) + 1)]

\* body of the for loop of add_episode, for one adjacent pair
add_episode_step(self, state_from, state_to) ==
    LET row  == DictValue(self.transition_counts, state_from, EmptyDict)
        row1 == DictPut(row, state_to, DictValue(row, state_to, 0) + 1)
    IN  [self EXCEPT
            !.states = @ \cup {state_from, state_to},
            !.transition_counts = DictPut(@, state_from, row1),
            !.state_counts = DictPut(@, state_from, DictValue(@, state_from, 0) + 1)]

\* variant: range(len(episode) - 2), the last pair is not visited
RECURSIVE add_episode_loop_stops_early(_, _, _)
add_episode_loop_stops_early(self, episode, i) ==
    IF i > Len(episode) - 2 THEN self
    ELSE add_episode_loop_stops_early(
             [self EXCEPT
                 !.states = @ \cup {episode[i], episode[i + 1]},
                 !.transition_counts =
                     DictPut(@, episode[i],
                             DictPut(DictValue(@, episode[i], EmptyDict), episode[i + 1],
                                     DictValue(DictValue(@, episode[i], EmptyDict),
                                               episode[i + 1], 0) + 1)),
                 !.state_counts = DictPut(@, episode[i], DictValue(@, episode[i], 0) + 1)],
             episode, i + 1)

\* for i in range(len(episode) - 1), i counted from 1
RECURSIVE add_episode_loop(_, _, _)
add_episode_loop(self, episode, i) ==
    IF i > Len(episode) - 1 THEN self
    ELSE add_episode_loop(add_episode_step(self, episode[i], episode[i + 1]), episode, i + 1)

\* variant: the length check lets an episode of one state through
add_episode_logs_single(self, episode) ==
    IF Len(episode) < 1 THEN self
    ELSE add_episode_loop([self EXCEPT !.episodes = Append(@, episode)], episode, 1)

add_episode(self, episode) ==
    IF Len(episode) < 2 THEN self
    ELSE add_episode_loop([self EXCEPT !.episodes = Append(@, episode)], episode, 1)

\* variant: no check for a zero state count before the division
get_transition_probability_unguarded(self, state_from, state_to) ==
    LET sc1  == DictTouch(self.state_counts, state_from, 0)
        rows == DictTouch(self.transition_counts, state_from, EmptyDict)
        row  == DictTouch(rows[state_from], state_to, 0)
        count == row[state_to]
        total == sc1[state_from]
    IN  [self |-> [self EXCEPT !.state_counts = sc1,
                               !.transition_counts = DictPut(rows, state_from, row)],
         ret |-> TrueDiv(count, total)]

\* returns the estimator after the call and the value returned
get_transition_probability(self, state_from, state_to) ==
    LET sc1 == DictTouch(self.state_counts, state_from, 0)
    IN  IF sc1[state_from] = 0
        THEN [self |-> [self EXCEPT !.state_counts = sc1], ret |-> Float(0, 1)]
        ELSE LET rows == DictTouch(self.transition_counts, state_from, EmptyDict)
                 row  == DictTouch(rows[state_from], state_to, 0)
                 count == row[state_to]
                 total == sc1[state_from]
             IN  [self |-> [self EXCEPT !.state_counts = sc1,
                                        !.transition_counts = DictPut(rows, state_from, row)],
                  ret |-> TrueDiv(count, total)]

\* inner for loop of get_transition_matrix over the states still to visit
RECURSIVE matrix_row(_, _, _, _)
matrix_row(self, state_from, todo, row) ==
    IF todo = {} THEN [self |-> self, ret |-> row]
    ELSE LET state_to == CHOOSE x \in todo : TRUE
             r == get_transition_probability(self, state_from, state_to)
         IN  matrix_row(r.self, state_from, todo \ {state_to},
                        DictPut(row, state_to, r.ret))

\* outer for loop of get_transition_matrix
RECURSIVE matrix_rows(_, _, _)
matrix_rows(self, todo, matrix) ==
    IF todo = {} THEN [self |-> self, ret |-> matrix]
    ELSE LET state_from == CHOOSE x \in todo : TRUE
             r == matrix_row(self, state_from, self.states, EmptyDict)
         IN  matrix_rows(r.self, todo \ {state_from},
                         DictPut(matrix, state_from, r.ret))

get_transition_matrix(self) == matrix_rows(self, self.states, EmptyDict)

\* variant: count >= 0, unobserved transitions are listed too
stats_cell_lists_zero(self, state, next_state, transitions) ==
    LET rows  == DictTouch(self.transition_counts, state, EmptyDict)
        row   == DictTouch(rows[state], next_state, 0)
        count == row[next_state]
        self1 == [self EXCEPT !.transition_counts = DictPut(rows, state, row)]
        r     == get_transition_probability(self1, state, next_state)
    IN  [self |-> r.self,
         ret |-> IF count >= 0
                 THEN DictPut(transitions, next_state,
                              [count |-> count, probability |-> r.ret])
                 ELSE transitions]

\* body of the inner for loop of get_state_statistics, for one next_state
stats_cell(self, state, next_state, transitions) ==
    LET rows  == DictTouch(self.transition_counts, state, EmptyDict)
        row   == DictTouch(rows[state], next_state, 0)
        count == row[next_state]
        self1 == [self EXCEPT !.transition_counts = DictPut(rows, state, row)]
        r     == get_transition_probability(self1, state, next_state)
    IN  [self |-> r.self,
         ret |-> IF count > 0
                 THEN DictPut(transitions, next_state,
                              [count |-> count, probability |-> r.ret])
                 ELSE transitions]

RECURSIVE stats_row(_, _, _, _)
stats_row(self, state, todo, transitions) ==
    IF todo = {} THEN [self |-> self, ret |-> transitions]
    ELSE LET next_state == CHOOSE x \in todo : TRUE
             r == stats_cell(self, state, next_state, transitions)
         IN  stats_row(r.self, state, todo \ {next_state}, r.ret)

RECURSIVE stats_rows(_, _, _)
stats_rows(self, todo, stats) ==
    IF todo = {} THEN [self |-> self, ret |-> stats]
    ELSE LET state == CHOOSE x \in todo : TRUE
             sc1 == DictTouch(self.state_counts, state, 0)
             total_count == sc1[state]
             r == stats_row([self EXCEPT !.state_counts = sc1], state,
                            self.states, EmptyDict)
         IN  stats_rows(r.self, todo \ {state},
                        DictPut(stats, state,
                                [total_occurrences |-> total_count,
                                 transitions |-> r.ret]))

get_state_statistics(self) == stats_rows(self, self.states, EmptyDict)

\* print_summary: only its effect on the estimator is modelled (the text
\* goes to standard output).  The loops visit sorted(self.states); the
\* estimator they leave behind does not depend on the order.
summary_cell(self, state_from, state_to) ==
    LET r    == get_transition_probability(self, state_from, state_to)
        rows == DictTouch(r.self.transition_counts, state_from, EmptyDict)
        row  == DictTouch(rows[state_from], state_to, 0)
    IN  [r.self EXCEPT !.transition_counts = DictPut(rows, state_from, row)]

RECURSIVE summary_row(_, _, _)
summary_row(self, state_from, todo) ==
    IF todo = {} THEN self
    ELSE LET state_to == CHOOSE x \in todo : TRUE
         IN  summary_row(summary_cell(self, state_from, state_to), state_from,
                         todo \ {state_to})

RECURSIVE summary_rows(_, _)
summary_rows(self, todo) ==
    IF todo = {} THEN self
    ELSE LET state_from == CHOOSE x \in todo : TRUE
             sc1 == DictTouch(self.state_counts, state_from, 0)
             self1 == [self EXCEPT !.state_counts = sc1]
         IN  summary_rows(IF sc1[state_from] = 0 THEN self1
                          ELSE summary_row(self1, state_from, self.states),
                          todo \ {state_from})

print_summary(self) == summary_rows(self, self.states)

(***************************************************************************)
(* State machine                                                           *)
(***************************************************************************)
\* call records the last method called and its arguments; repeat tells that
\* the call is an add_episode of the episode the call directly before it added.
\* before holds the estimator as it was when the last add_episode was entered.
NoCall == [op |-> "__init__", episode |-> <<>>, state_from |-> "", state_to |-> "",
           repeat |-> FALSE]

Install(self) ==
    /\ states' = self.states
    /\ transition_counts' = self.transition_counts
    /\ state_counts' = self.state_counts
    /\ episodes' = self.episodes

\* sum of f[x] over x in S
RECURSIVE SumOver(_, _)
SumOver(f, S) ==
    IF S = {} THEN 0
    ELSE LET x == CHOOSE y \in S : TRUE
         IN  f[x] + SumOver(f, S \ {x})

Init ==
    /\ states = Fresh.states
    /\ transition_counts = Fresh.transition_counts
    /\ state_counts = Fresh.state_counts
    /\ episodes = Fresh.episodes
    /\ call = NoCall
    /\ before = <<>>

AddEpisode(episode) ==
    /\ SumOver(state_counts, DOMAIN state_counts) + Len(episode) - 1 <= MaxTransitions
    /\ Install(add_episode(Self, episode))
    /\ call' = [NoCall EXCEPT !.op = "add_episode", !.episode = episode,
                              !.repeat = (call.op = "add_episode" /\ call.episode = episode)]
    /\ before' = <<Self>>

GetTransitionProbability(state_from, state_to) ==
    /\ Install(get_transition_probability(Self, state_from, state_to).self)
    /\ call' = [NoCall EXCEPT !.op = "get_transition_probability",
                              !.state_from = state_from, !.state_to = state_to]
    /\ before' = <<>>

GetTransitionMatrix ==
    /\ Install(get_transition_matrix(Self).self)
    /\ call' = [NoCall EXCEPT !.op = "get_transition_matrix"]
    /\ before' = <<>>

GetStateStatistics ==
    /\ Install(get_state_statistics(Self).self)
    /\ call' = [NoCall EXCEPT !.op = "get_state_statistics"]
    /\ before' = <<>>

PrintSummary ==
    /\ Install(print_summary(Self))
    /\ call' = [NoCall EXCEPT !.op = "print_summary"]
    /\ before' = <<>>

Next ==
    \/ \E episode \in Episodes : AddEpisode(episode)
    \/ \E state_from \in QueryLabels, state_to \in QueryLabels :
           GetTransitionProbability(state_from, state_to)
    \/ GetTransitionMatrix
    \/ GetStateStatistics
    \/ PrintSummary

Spec == Init /\ [][Next]_vars

(***************************************************************************)
(* The reference usage (the __main__ block): the three example episodes    *)
(* are ingested in order into a fresh estimator; queries may be issued at  *)
(* any point.                                                              *)
(***************************************************************************)
ExampleEpisodes ==
    << <<"Home", "Coffee", "Coffee", "Chat", "Chat", "Coffee", "Computer", "Computer", "Home">>,
       <<"Computer", "Computer", "Chat", "Chat", "Coffee", "Computer", "Computer", "Computer">>,
       <<"Home", "Home", "Coffee", "Chat", "Computer", "Coffee", "Coffee">> >>

AddExampleEpisode ==
    /\ Len(episodes) < Len(ExampleEpisodes)
    /\ Install(add_episode(Self, ExampleEpisodes[Len(episodes) + 1]))
    /\ call' = [NoCall EXCEPT !.op = "add_episode",
                              !.episode = ExampleEpisodes[Len(episodes) + 1]]
    /\ before' = <<Self>>

ExampleNext ==
    \/ AddExampleEpisode
    \/ \E state_from \in ExampleLabels, state_to \in ExampleLabels :
           GetTransitionProbability(state_from, state_to)
    \/ GetTransitionMatrix
    \/ GetStateStatistics
    \/ PrintSummary

SpecExample == Init /\ [][ExampleNext]_vars

(***************************************************************************)
(* Vocabulary of the properties.  Counts are read without touching the     *)
(* dictionaries: an absent entry counts as 0.                              *)
(***************************************************************************)
AllLabels == QueryLabels \cup ExampleLabels

TCof(self, s, t) == DictValue(DictValue(self.transition_counts, s, EmptyDict), t, 0)
SCof(self, s) == DictValue(self.state_counts, s, 0)

SelfNext == [states |-> states',
             transition_counts |-> transition_counts',
             state_counts |-> state_counts',
             episodes |-> episodes']

\* number of indices i with e[i] = a and e[i+1] = b
PairCount(e, a, b) == Cardinality({i \in 1..(Len(e) - 1) : e[i] = a /\ e[i + 1] = b})
\* number of indices i, the last excluded, with e[i] = a
OriginCount(e, a) == Cardinality({i \in 1..(Len(e) - 1) : e[i] = a})
Elements(e) == {e[i] : i \in 1..Len(e)}

QueryOps == {"get_transition_probability", "get_transition_matrix",
             "get_state_statistics", "print_summary"}

\* C1: in every reachable state, for every label s, state_counts[s] is the
\* sum over all labels t of transition_counts[s][t] (absent entries are 0).
C1_StateCountIsRowSum ==
    \A s \in AllLabels :
        SCof(Self, s) = SumOver([t \in AllLabels |-> TCof(Self, s, t)], AllLabels)

C1_Witness ==
    /\ call.op = "add_episode"
    /\ \E s \in AllLabels, t \in AllLabels, u \in AllLabels :
          /\ t # u
          /\ TCof(Self, s, t) > 0
          /\ TCof(Self, s, u) > 0
          /\ SCof(Self, s) >= 3

\* C2: one add_episode(e) with len(e) >= 2 adds to transition_counts[a][b]
\* the number of adjacent occurrences of (a,b) in e, adds to state_counts[a]
\* the number of non-final occurrences of a in e, adds the elements of e to
\* states, and changes no other count.
C2_AddEpisodeCounts ==
    [][(call'.op = "add_episode" /\ Len(call'.episode) >= 2) =>
          LET e == call'.episode
          IN  /\ \A a \in AllLabels, b \in AllLabels :
                    TCof(SelfNext, a, b) = TCof(Self, a, b) + PairCount(e, a, b)
              /\ \A a \in AllLabels :
                    SCof(SelfNext, a) = SCof(Self, a) + OriginCount(e, a)
              /\ states' = states \cup Elements(e)]_vars

C2_Witness ==
    /\ call.op = "add_episode"
    /\ Len(call.episode) >= 3
    /\ call.episode[1] = call.episode[2]
    /\ call.episode[2] = call.episode[3]
    /\ before # <<>>
    /\ before[1].states # {}
    /\ call.episode[1] \notin before[1].states

\* C3: get_transition_probability(s, t) returns 0.0 whenever
\* state_counts[s] is 0, for every t, and never raises.
C3_ZeroFallback ==
    \A s \in AllLabels, t \in AllLabels :
        LET r == get_transition_probability(Self, s, t).ret
        IN  /\ ~r.raised
            /\ SCof(Self, s) = 0 => r = Float(0, 1)

C3_Witness ==
    /\ call.op = "get_transition_probability"
    /\ call.state_from \in states
    /\ SCof(Self, call.state_from) = 0
    /\ call.state_to = call.state_from

\* C4: for every s with state_counts[s] > 0 the outgoing counts of s over
\* the labels in states add up to state_counts[s], each of them is at most
\* state_counts[s], and the probabilities of the row add up to 1.
C4_RowSumsToOne ==
    \A s \in AllLabels :
        SCof(Self, s) > 0 =>
            /\ SumOver([t \in states |-> TCof(Self, s, t)], states) = SCof(Self, s)
            /\ \A t \in AllLabels : TCof(Self, s, t) <= SCof(Self, s)
            /\ \A t \in states :
                  LET r == get_transition_probability(Self, s, t).ret
                  IN  ~r.raised /\ r.num <= r.den /\ SCof(Self, s) % r.den = 0
            /\ SumOver([t \in states |->
                           LET r == get_transition_probability(Self, s, t).ret
                           IN  r.num * (SCof(Self, s) \div r.den)], states)
                  = SCof(Self, s)

C4_Witness ==
    /\ call.op = "add_episode"
    /\ \E s \in states, t \in states :
          /\ s # t
          /\ TCof(Self, s, s) > 0
          /\ TCof(Self, s, t) > 0
          /\ SCof(Self, t) = 0

\* C5 as stated: once the three example episodes are ingested into a fresh
\* estimator, P(Home -> Coffee) = 3/4 from counts 3 and 4, and
\* P(Coffee -> Chat) = 3/8 from counts 3 and 8.
C5_ExampleProbabilitiesAsStated ==
    Len(episodes) = Len(ExampleEpisodes) =>
        /\ TCof(Self, "Home", "Coffee") = 3
        /\ SCof(Self, "Home") = 4
        /\ get_transition_probability(Self, "Home", "Coffee").ret = Float(3, 4)
        /\ TCof(Self, "Coffee", "Chat") = 3
        /\ SCof(Self, "Coffee") = 8
        /\ get_transition_probability(Self, "Coffee", "Chat").ret = Float(3, 8)

\* C5 amended: once the three example episodes are ingested into a fresh
\* estimator, P(Home -> Coffee) = 2/3 from counts 2 and 3, and
\* P(Coffee -> Chat) = 1/3 from counts 2 and 6.
C5_ExampleProbabilities ==
    Len(episodes) = Len(ExampleEpisodes) =>
        /\ TCof(Self, "Home", "Coffee") = 2
        /\ SCof(Self, "Home") = 3
        /\ get_transition_probability(Self, "Home", "Coffee").ret = Float(2, 3)
        /\ TCof(Self, "Coffee", "Chat") = 2
        /\ SCof(Self, "Coffee") = 6
        /\ get_transition_probability(Self, "Coffee", "Chat").ret = Float(1, 3)

C5_Witness ==
    /\ episodes = ExampleEpisodes
    /\ call.op = "get_transition_probability"
    /\ call.state_from = "Coffee"
    /\ call.state_to = "Chat"

\* C6 as stated: in any reachable state, an add_episode(e) with len(e) >= 2
\* directly after an add_episode(e) doubles what e contributed to every
\* count and leaves every get_transition_probability(s, t) as it was after
\* the first of the two calls.
C6_RepeatKeepsProbabilitiesAsStated ==
    [][(call'.op = "add_episode" /\ call'.repeat /\ Len(call'.episode) >= 2) =>
          LET pre == before[1]
          IN  /\ \A a \in AllLabels, b \in AllLabels :
                    TCof(SelfNext, a, b) - TCof(pre, a, b)
                        = 2 * (TCof(Self, a, b) - TCof(pre, a, b))
              /\ \A a \in AllLabels :
                    SCof(SelfNext, a) - SCof(pre, a) = 2 * (SCof(Self, a) - SCof(pre, a))
              /\ \A s \in AllLabels, t \in AllLabels :
                    get_transition_probability(SelfNext, s, t).ret
                        = get_transition_probability(Self, s, t).ret]_vars

\* C6 amended: the second of two consecutive add_episode(e), len(e) >= 2,
\* doubles what e contributed to every count, and leaves
\* get_transition_probability(s, t) as it was after the first call for every
\* s that is no origin of e or had state_counts[s] = 0 before the first call
\* (so for every pair when the first call was made on a fresh estimator).
C6_RepeatKeepsProbabilities ==
    [][(call'.op = "add_episode" /\ call'.repeat /\ Len(call'.episode) >= 2) =>
          LET pre == before[1]
              e == call'.episode
          IN  /\ \A a \in AllLabels, b \in AllLabels :
                    TCof(SelfNext, a, b) - TCof(pre, a, b)
                        = 2 * (TCof(Self, a, b) - TCof(pre, a, b))
              /\ \A a \in AllLabels :
                    SCof(SelfNext, a) - SCof(pre, a) = 2 * (SCof(Self, a) - SCof(pre, a))
              /\ \A s \in AllLabels, t \in AllLabels :
                    (OriginCount(e, s) = 0 \/ SCof(pre, s) = 0) =>
                        get_transition_probability(SelfNext, s, t).ret
                            = get_transition_probability(Self, s, t).ret]_vars

\* the second of two consecutive add_episode(e) has acted on an estimator
\* that was not fresh before the first, and e has an origin not counted before
C6_Witness ==
    /\ call.op = "add_episode"
    /\ call.repeat
    /\ Len(call.episode) >= 2
    /\ Len(episodes) >= 3
    /\ \E s \in AllLabels :
          /\ OriginCount(call.episode, s) > 0
          /\ SCof(Self, s) = 2 * OriginCount(call.episode, s)

\* C7: add_episode(e) with len(e) < 2 leaves states, transition_counts,
\* state_counts and episodes unchanged; add_episode(e) with len(e) >= 2
\* appends e to episodes, so len(episodes) counts those calls.
C7_ShortEpisodeNoOp ==
    [][(call'.op = "add_episode") =>
          IF Len(call'.episode) < 2
          THEN UNCHANGED <<states, transition_counts, state_counts, episodes>>
          ELSE episodes' = Append(episodes, call'.episode)]_vars

C7_Witness ==
    /\ call.op = "add_episode"
    /\ Len(call.episode) = 1
    /\ states # {}
    /\ call.episode[1] \notin states

\* C8: every label that is a key of transition_counts, or a key of one of
\* its inner mappings, is a member of states.
C8_KeysAreStates ==
    /\ DOMAIN transition_counts \subseteq states
    /\ \A s \in DOMAIN transition_counts : DOMAIN transition_counts[s] \subseteq states

\* C9: get_transition_matrix() is dense and square over states, and
\* get_state_statistics() agrees with it: a destination is listed for s
\* exactly when its count is positive, exactly when its matrix entry is
\* positive, with that probability and that count, and total_occurrences is
\* state_counts[s].
C9_MatrixAndStatistics ==
    LET m == get_transition_matrix(Self)
        matrix == m.ret
        stats == get_state_statistics(m.self).ret
    IN  /\ DOMAIN matrix = states
        /\ DOMAIN stats = states
        /\ \A s \in states :
              /\ DOMAIN matrix[s] = states
              /\ stats[s].total_occurrences = SCof(Self, s)
              /\ DOMAIN stats[s].transitions \subseteq states
              /\ \A t \in states :
                    /\ (t \in DOMAIN stats[s].transitions) <=> (TCof(Self, s, t) > 0)
                    /\ (TCof(Self, s, t) > 0) <=> (matrix[s][t].num > 0)
                    /\ ~matrix[s][t].raised
                    /\ t \in DOMAIN stats[s].transitions =>
                          /\ stats[s].transitions[t].probability = matrix[s][t]
                          /\ stats[s].transitions[t].count = TCof(Self, s, t)

C9_Witness ==
    /\ call.op = "get_state_statistics"
    /\ \E s \in states, t \in states, u \in states :
          /\ TCof(Self, s, t) > 0
          /\ TCof(Self, s, u) = 0
    /\ \E v \in states : SCof(Self, v) = 0

\* C10: a query (get_transition_probability, get_transition_matrix,
\* get_state_statistics, print_summary) leaves states, episodes and the key
\* sets and values of state_counts and transition_counts unchanged.
C10_QueriesArePure ==
    [][(call'.op \in QueryOps) =>
          UNCHANGED <<states, episodes, state_counts, transition_counts>>]_vars

====
